---- MODULE Spec2Model ----
(***************************************************************************)
(* Model of build_graphml.py: the graph builder build_ifc43_graph (space   *)
(* extractor, containment linker, boundary aggregator, adjacency resolver) *)
(* and the name helpers it calls.                                          *)
(*                                                                         *)
(* Python strings are modelled as sequences of one-character strings, so   *)
(* that slicing, concatenation and the regular expressions are computed.   *)
(* The area/volume attributes of a *)
(* node come from property sets and are read by no later stage; they are   *)
(* left out of the node records.                                           *)
(***************************************************************************)
EXTENDS Integers, Sequences, FiniteSets, TLC

VARIABLES
    spaces,             \* ifc.by_type("IfcSpace"): sequence of space entities
    aggregates,         \* ifc.by_type("IfcRelAggregates")
    rels,               \* the boundary relationships of the file
    pc,                 \* position in build_ifc43_graph
    si,                 \* number of spaces already extracted
    ai,                 \* number of aggregation relationships already linked
    listing,            \* which of the three by_type listings is traversed
    pending,            \* relationships of the current listing not yet visited
    G,                  \* the graph under construction
    element_to_spaces,  \* element key -> set of space ids
    todo                \* keys of element_to_spaces not yet visited by the resolver

vars == <<spaces, aggregates, rels, pc, si, ai, listing, pending,
          G, element_to_spaces, todo>>

-----------------------------------------------------------------------------
(* Bounds of the model *)

MaxRels == 4
MaxAggs == 2
MaxLen == 5

-----------------------------------------------------------------------------
(* Strings *)

\* None where a string is expected
None == <<"None">>

\* None where an entity is expected
NoEntity == [type |-> "NoneType"]

Digits == {"0", "1", "2", "3", "4", "5", "6", "7", "8", "9"}

Letters ==
    {"a", "b", "c", "d", "e", "f", "g", "h", "i", "j", "k", "l", "m",
     "n", "o", "p", "q", "r", "s", "t", "u", "v", "w", "x", "y", "z",
     "A", "B", "C", "D", "E", "F", "G", "H", "I", "J", "K", "L", "M",
     "N", "O", "P", "Q", "R", "S", "T", "U", "V", "W", "X", "Y", "Z"}

\* \w of the re module
WordChars == Letters \cup Digits \cup {"_"}

\* \s of the re module, and what str.strip() removes
Whitespace == {" "}

\* the separators of the character class [-–—]; the en and em dash are
\* written "--" and "---"
Dashes == {"-", "--", "---"}

ISO_ALLOWED == {<<"0">>, <<"5">>, <<"7">>, <<"8">>}

Min(S) == CHOOSE x \in S : \A y \in S : x <= y

Max(S) == CHOOSE x \in S : \A y \in S : x >= y

safe_str(v) == IF v = None THEN <<>> ELSE v

\* str.strip()
Strip(s) ==
    LET keep == {i \in 1..Len(s) : s[i] \notin Whitespace}
    IN  IF keep = {} THEN <<>> ELSE SubSeq(s, Min(keep), Max(keep))

\* s[:n]
Prefix(s, n) == SubSeq(s, 1, IF Len(s) < n THEN Len(s) ELSE n)

\* "x or y" on strings
OrElse(x, y) == IF x # <<>> THEN x ELSE y

\* clean_space_name
clean_space_name(space) ==
    OrElse(Strip(safe_str(space.LongName)),
           OrElse(Strip(safe_str(space.Name)),
                  <<"S", "p", "a", "c", "e", "-">> \o Prefix(space.GlobalId, 6)))

IsWordAt(s, i) == i \in 1..Len(s) /\ s[i] \in WordChars

\* \b holds in front of position i (i = Len(s) + 1 is the end of the string)
WordBoundary(s, i) == IsWordAt(s, i - 1) # IsWordAt(s, i)

\* the literal ISO under re.IGNORECASE, at positions p, p+1, p+2
IsoAt(s, p) ==
    /\ p + 2 <= Len(s)
    /\ s[p] \in {"I", "i"}
    /\ s[p + 1] \in {"S", "s"}
    /\ s[p + 2] \in {"O", "o"}

AllIn(s, from, to, chars) == \A i \in from..to : s[i] \in chars

\* The matches of \bISO\s*([0-9]+)\b that start at p, each as <<q, r>>:
\* \s* takes p+3..q-1 and the group takes q..r.
IsoMatchesAt(s, p) ==
    IF ~(WordBoundary(s, p) /\ IsoAt(s, p)) THEN {}
    ELSE {m \in ((p + 3)..Len(s)) \X ((p + 3)..Len(s)) :
            /\ m[1] <= m[2]
            /\ AllIn(s, p + 3, m[1] - 1, Whitespace)
            /\ AllIn(s, m[1], m[2], Digits)
            /\ WordBoundary(s, m[2] + 1)}

\* group(1) of re.search: leftmost start, then the greedy choice of the
\* quantifiers (longest \s*, then longest digit run); None without a match
IsoSearch(s) ==
    LET starts == {p \in 1..Len(s) : IsoMatchesAt(s, p) # {}}
    IN  IF starts = {} THEN None
        ELSE LET ms == IsoMatchesAt(s, Min(starts))
                 q  == Max({m[1] : m \in ms})
                 r  == Max({m[2] : m \in {n \in ms : n[1] = q}})
             IN  SubSeq(s, q, r)

\* mutant: the captured digits are returned without the allow-list test
extract_iso_unchecked(name) ==
    IF name = <<>> THEN <<"0">>
    ELSE LET m == IsoSearch(name)
         IN  IF m = None THEN <<"0">> ELSE Strip(m)

\* extract_iso_from_name
extract_iso_from_name(name) ==
    IF name = <<>> THEN <<"0">>
    ELSE LET m == IsoSearch(name)
         IN  IF m = None THEN <<"0">>
             ELSE LET iso == Strip(m)
                  IN  IF iso \in ISO_ALLOWED THEN iso ELSE <<"0">>

\* The pattern \s*[-–—]\s*ISO\s*\d+\s*$ matches s from position p to the end
IsoSuffixAt(s, p) ==
    \E d \in p..Len(s) : \E i \in (d + 1)..Len(s) :
    \E q \in (i + 3)..Len(s) : \E r \in q..Len(s) :
        /\ AllIn(s, p, d - 1, Whitespace)
        /\ s[d] \in Dashes
        /\ AllIn(s, d + 1, i - 1, Whitespace)
        /\ IsoAt(s, i)
        /\ AllIn(s, i + 3, q - 1, Whitespace)
        /\ AllIn(s, q, r, Digits)
        /\ AllIn(s, r + 1, Len(s), Whitespace)

\* strip_iso_from_name
strip_iso_from_name(name) ==
    IF name = <<>> THEN <<>>
    ELSE LET starts  == {p \in 1..Len(name) : IsoSuffixAt(name, p)}
             cleaned == IF starts = {} THEN Strip(name)
                        ELSE Strip(SubSeq(name, 1, Min(starts) - 1))
         IN  IF cleaned # <<>> THEN cleaned ELSE Strip(name)

-----------------------------------------------------------------------------
(* The graph: networkx.Graph as a record of nodes and edges *)

EmptyGraph == [nodes |-> <<>>, adj |-> <<>>]

\* dict.update: the keys of new override those of old
Update(old, new) ==
    [k \in (DOMAIN old) \cup (DOMAIN new) |->
        IF k \in DOMAIN new THEN new[k] ELSE old[k]]

\* d[key] = value on a dict d
Put(d, key, value) ==
    [k \in (DOMAIN d) \cup {key} |-> IF k = key THEN value ELSE d[k]]

\* G.add_node(n, **attrs)
add_node(H, n, attrs) ==
    [H EXCEPT !.nodes =
        Put(H.nodes, n, IF n \in DOMAIN H.nodes THEN Update(H.nodes[n], attrs)
                                                ELSE attrs)]

\* G.has_edge(u, v)
has_edge(H, u, v) == {u, v} \in DOMAIN H.adj

\* G.add_edge(u, v, **attrs): missing endpoints become nodes without
\* attributes, the attributes of an existing edge are updated
add_edge(H, u, v, attrs) ==
    LET withU == IF u \in DOMAIN H.nodes THEN H.nodes ELSE Put(H.nodes, u, <<>>)
        withV == IF v \in DOMAIN withU THEN withU ELSE Put(withU, v, <<>>)
    IN  [nodes |-> withV,
         adj   |-> Put(H.adj, {u, v},
                       IF has_edge(H, u, v) THEN Update(H.adj[{u, v}], attrs)
                                            ELSE attrs)]

\* x in list
InList(x, list) == \E i \in 1..Len(list) : list[i] = x

-----------------------------------------------------------------------------
(* Stage 1: space extractor *)

SpaceNode(s) ==
    LET gid          == safe_str(s.GlobalId)
        raw_name     == clean_space_name(s)
        iso          == extract_iso_from_name(raw_name)
        display_name == strip_iso_from_name(raw_name)
    IN  [ifc_type  |-> "IfcSpace",
         name      |-> display_name,
         room_name |-> display_name,
         GUID      |-> gid,
         iso       |-> iso]

ExtractSpace ==
    /\ pc = "spaces"
    /\ si < Len(spaces)
    /\ LET s == spaces[si + 1]
       IN  G' = add_node(G, safe_str(s.GlobalId), SpaceNode(s))
    /\ si' = si + 1
    /\ UNCHANGED <<spaces, aggregates, rels, pc, ai, listing, pending,
                   element_to_spaces, todo>>

EndSpaces ==
    /\ pc = "spaces"
    /\ si = Len(spaces)
    /\ pc' = "aggregates"
    /\ UNCHANGED <<spaces, aggregates, rels, si, ai, listing, pending, G,
                   element_to_spaces, todo>>

-----------------------------------------------------------------------------
(* Stage 2: containment linker *)

\* mutant: every aggregating entity is taken as a structural parent
IsAnyParent(parent) == TRUE

\* parent.is_a("IfcBuilding") or parent.is_a("IfcBuildingStorey")
IsStructuralParent(parent) ==
    parent.type \in {"IfcBuilding", "IfcBuildingStorey"}

ParentNode(parent) ==
    LET pid == safe_str(parent.GlobalId)
    IN  [ifc_type |-> parent.type,
         name     |-> OrElse(safe_str(parent.Name), pid),
         GUID     |-> pid,
         iso      |-> <<>>]

\* the loop over rel.RelatedObjects, from child k on
RECURSIVE LinkChildren(_, _, _, _)
LinkChildren(H, pid, children, k) ==
    IF k > Len(children) THEN H
    ELSE LET child == children[k]
             H2    == IF child.type = "IfcSpace"
                      THEN add_edge(H, pid, safe_str(child.GlobalId),
                                    [type |-> "contains"])
                      ELSE H
         IN  LinkChildren(H2, pid, children, k + 1)

\* one iteration of the loop over IfcRelAggregates
LinkOne(H, rel) ==
    LET parent == rel.RelatingObject
    IN  IF parent = NoEntity THEN H
        ELSE IF ~IsStructuralParent(parent) THEN H
        ELSE LET pid == safe_str(parent.GlobalId)
             IN  LinkChildren(add_node(H, pid, ParentNode(parent)),
                              pid, rel.RelatedObjects, 1)

LinkAggregate ==
    /\ pc = "aggregates"
    /\ ai < Len(aggregates)
    /\ G' = LinkOne(G, aggregates[ai + 1])
    /\ ai' = ai + 1
    /\ UNCHANGED <<spaces, aggregates, rels, pc, si, listing, pending,
                   element_to_spaces, todo>>

EndAggregates ==
    /\ pc = "aggregates"
    /\ ai = Len(aggregates)
    /\ pc' = "boundaries"
    /\ listing' = 0
    /\ pending' = {i \in 1..Len(rels) : rels[i].level >= 0}
    /\ element_to_spaces' = <<>>
    /\ UNCHANGED <<spaces, aggregates, rels, si, ai, G, todo>>

-----------------------------------------------------------------------------
(* Stage 3: boundary aggregator *)

\* ifc.by_type(T) lists the entities of type T and of its subtypes; level is
\* 0 for IfcRelSpaceBoundary, 1 for IfcRelSpaceBoundary1stLevel (a subtype of
\* it) and 2 for IfcRelSpaceBoundary2ndLevel (a subtype of the latter)
by_type_boundary(k) == {i \in 1..Len(rels) : rels[i].level >= k}

VirtualPrefix == <<"V", "I", "R", "T", "U", "A", "L", "-">>

\* mutant: the identity of the relationship is left out of the key
VirtualKeyPrefixOnly(rel) == VirtualPrefix

\* f"VIRTUAL-{safe_str(rel.GlobalId)}"
VirtualKey(rel) == VirtualPrefix \o safe_str(rel.GlobalId)

\* mutant: the virtual key is built from the missing element
ElementKeyOfElement(rel) ==
    IF rel.RelatedBuildingElement # NoEntity
    THEN safe_str(rel.RelatedBuildingElement.GlobalId)
    ELSE VirtualPrefix \o safe_str(None)

\* the key eid of a boundary relationship
ElementKey(rel) ==
    IF rel.RelatedBuildingElement # NoEntity
    THEN safe_str(rel.RelatedBuildingElement.GlobalId)
    ELSE VirtualKey(rel)

\* mutant: a relationship without relating space is not skipped
AggregateOneNoSkip(ets, rel) ==
    LET sid == IF rel.RelatingSpace = NoEntity THEN safe_str(None)
               ELSE safe_str(rel.RelatingSpace.GlobalId)
        eid == ElementKey(rel)
    IN  Put(ets, eid, (IF eid \in DOMAIN ets THEN ets[eid] ELSE {}) \cup {sid})

\* one iteration of the loop over boundaries
AggregateOne(ets, rel) ==
    IF rel.RelatingSpace = NoEntity THEN ets
    ELSE LET sid == safe_str(rel.RelatingSpace.GlobalId)
             eid == ElementKey(rel)
         IN  Put(ets, eid, (IF eid \in DOMAIN ets THEN ets[eid] ELSE {}) \cup {sid})

AggregateBoundary ==
    /\ pc = "boundaries"
    /\ \E i \in pending :
         /\ element_to_spaces' = AggregateOne(element_to_spaces, rels[i])
         /\ pending' = pending \ {i}
    /\ UNCHANGED <<spaces, aggregates, rels, pc, si, ai, listing, G, todo>>

\* the traversal reaches the next of the three concatenated listings
NextListing ==
    /\ pc = "boundaries"
    /\ pending = {}
    /\ listing < 2
    /\ listing' = listing + 1
    /\ pending' = by_type_boundary(listing + 1)
    /\ UNCHANGED <<spaces, aggregates, rels, pc, si, ai, G, element_to_spaces,
                   todo>>

EndBoundaries ==
    /\ pc = "boundaries"
    /\ pending = {}
    /\ listing = 2
    /\ pc' = "resolve"
    /\ todo' = DOMAIN element_to_spaces
    /\ UNCHANGED <<spaces, aggregates, rels, si, ai, listing, pending, G,
                   element_to_spaces>>

-----------------------------------------------------------------------------
(* Stage 4: adjacency resolver.  A resolver state st is the graph together *)
(* with ok, FALSE once a KeyError has been raised.                         *)

\* the orders in which list(sids) can list a set
Orders(S) ==
    {f \in [1..Cardinality(S) -> S] :
        \A i, j \in 1..Cardinality(S) : i # j => f[i] # f[j]}

\* mutant: the key is appended without the membership test
AddOrAppendNoDedup(st, a, b, eid) ==
    IF ~st.ok THEN st
    ELSE IF ~has_edge(st.G, a, b)
         THEN [G  |-> add_edge(st.G, a, b, [type |-> "adjacent", vias |-> <<eid>>]),
               ok |-> TRUE]
         ELSE IF "vias" \notin DOMAIN st.G.adj[{a, b}]
              THEN [G |-> st.G, ok |-> FALSE]
              ELSE [G  |-> [st.G EXCEPT !.adj[{a, b}].vias = Append(@, eid)],
                    ok |-> TRUE]

\* mutant: the edge is added again whether or not it exists
AddOrAppendOverwrite(st, a, b, eid) ==
    IF ~st.ok THEN st
    ELSE [G  |-> add_edge(st.G, a, b, [type |-> "adjacent", vias |-> <<eid>>]),
          ok |-> TRUE]

\* the body executed for one pair (a, b): create the edge or append the key
AddOrAppend(st, a, b, eid) ==
    IF ~st.ok THEN st
    ELSE IF ~has_edge(st.G, a, b)
         THEN [G  |-> add_edge(st.G, a, b, [type |-> "adjacent", vias |-> <<eid>>]),
               ok |-> TRUE]
         ELSE IF "vias" \notin DOMAIN st.G.adj[{a, b}]
              THEN [G |-> st.G, ok |-> FALSE]
              ELSE IF ~InList(eid, st.G.adj[{a, b}].vias)
                   THEN [G  |-> [st.G EXCEPT !.adj[{a, b}].vias = Append(@, eid)],
                         ok |-> TRUE]
                   ELSE st

\* the double loop over i < j
RECURSIVE PairLoop(_, _, _, _, _)
PairLoop(st, sids, eid, i, j) ==
    IF i > Len(sids) THEN st
    ELSE IF j > Len(sids) THEN PairLoop(st, sids, eid, i + 1, i + 2)
    ELSE PairLoop(AddOrAppend(st, sids[i], sids[j], eid), sids, eid, i, j + 1)

\* G.nodes[sid]["name"] raises KeyError
NameLookupFails(H, sid) ==
    sid \notin DOMAIN H.nodes \/ "name" \notin DOMAIN H.nodes[sid]

\* mutant: only the groups of exactly two spaces are resolved
ResolveGroupPairsOnly(H, eid, sids) ==
    IF \E k \in 1..Len(sids) : NameLookupFails(H, sids[k])
    THEN [G |-> H, ok |-> FALSE]
    ELSE IF Len(sids) = 2
         THEN AddOrAppend([G |-> H, ok |-> TRUE], sids[1], sids[2], eid)
         ELSE [G |-> H, ok |-> TRUE]

\* one iteration of the loop over element_to_spaces.items()
ResolveGroup(H, eid, sids) ==
    IF \E k \in 1..Len(sids) : NameLookupFails(H, sids[k])
    THEN [G |-> H, ok |-> FALSE]
    ELSE IF Len(sids) = 2
         THEN AddOrAppend([G |-> H, ok |-> TRUE], sids[1], sids[2], eid)
         ELSE PairLoop([G |-> H, ok |-> TRUE], sids, eid, 1, 2)

\* pc = "rerun": the same loop applied a second time to the returned graph
Resolve ==
    /\ pc \in {"resolve", "rerun"}
    /\ \E eid \in todo : \E sids \in Orders(element_to_spaces[eid]) :
         LET st == ResolveGroup(G, eid, sids)
         IN  /\ G' = st.G
             /\ pc' = IF st.ok THEN pc ELSE "crashed"
             /\ todo' = todo \ {eid}
    /\ UNCHANGED <<spaces, aggregates, rels, si, ai, listing, pending,
                   element_to_spaces>>

\* return G
EndResolve ==
    /\ pc = "resolve"
    /\ todo = {}
    /\ pc' = "done"
    /\ UNCHANGED <<spaces, aggregates, rels, si, ai, listing, pending, G,
                   element_to_spaces, todo>>

Rerun ==
    /\ pc = "done"
    /\ pc' = "rerun"
    /\ todo' = DOMAIN element_to_spaces
    /\ UNCHANGED <<spaces, aggregates, rels, si, ai, listing, pending, G,
                   element_to_spaces>>

EndRerun ==
    /\ pc = "rerun"
    /\ todo = {}
    /\ pc' = "done2"
    /\ UNCHANGED <<spaces, aggregates, rels, si, ai, listing, pending, G,
                   element_to_spaces, todo>>

Next ==
    \/ ExtractSpace
    \/ EndSpaces
    \/ LinkAggregate
    \/ EndAggregates
    \/ AggregateBoundary
    \/ NextListing
    \/ EndBoundaries
    \/ Resolve
    \/ EndResolve
    \/ Rerun
    \/ EndRerun

-----------------------------------------------------------------------------
(* The entities of the input files *)

Space(gid, long, name) ==
    [GlobalId |-> gid, type |-> "IfcSpace", LongName |-> long, Name |-> name]

Entity(gid, type, name) == [GlobalId |-> gid, type |-> type, Name |-> name]

S1 == Space(<<"s", "1">>, <<"A", " ", "-", " ", "I", "S", "O", " ", "7">>, None)
S2 == Space(<<"s", "2">>, None, <<"H", "a", "l", "l">>)
S3 == Space(<<"s", "3">>, None, None)
B1 == Entity(<<"b", "1">>, "IfcBuilding", None)
P1 == Entity(<<"p", "1">>, "IfcBuildingStorey", <<"L", "1">>)
T1 == Entity(<<"t", "1">>, "IfcSite", <<"S", "i", "t", "e">>)
X1 == Entity(<<"x", "1">>, "IfcExternalSpatialElement", None)
E1 == Entity(<<"e", "1">>, "IfcWall", None)
\* E2 has the identity string of the first boundary relationship: an element
\* and a relationship are told apart by the key, not by their identities
E2 == Entity(<<"r", "1">>, "IfcSlab", None)

DigitChar == <<"1", "2", "3", "4", "5", "6", "7", "8", "9">>

\* the identity of the i-th boundary relationship
RelId(i) == <<"r", DigitChar[i]>>

\* every combination of a level, a relating space and a related element
RelChoices(levels, relating, related) ==
    [n \in 1..(Len(levels) * Len(relating) * Len(related)) |->
        [level                  |-> levels[((n - 1) \div (Len(relating) * Len(related))) + 1],
         RelatingSpace          |-> relating[(((n - 1) \div Len(related)) % Len(relating)) + 1],
         RelatedBuildingElement |-> related[((n - 1) % Len(related)) + 1]]]

\* The files with MaxRels boundary relationships drawn from choices.  The
\* identities r1, r2, ... are given in a canonical order of the choices;
\* the traversal visits the relationships in any order.
RelLists(choices) ==
    {[i \in 1..MaxRels |->
        [GlobalId               |-> RelId(i),
         level                  |-> choices[f[i]].level,
         RelatingSpace          |-> choices[f[i]].RelatingSpace,
         RelatedBuildingElement |-> choices[f[i]].RelatedBuildingElement]] :
      f \in {g \in [1..MaxRels -> 1..Len(choices)] :
               \A i \in 1..(MaxRels - 1) : g[i] <= g[i + 1]}}

Agg(parent, children) == [RelatingObject |-> parent, RelatedObjects |-> children]

Start ==
    /\ pc = "spaces"
    /\ si = 0
    /\ ai = 0
    /\ listing = 0
    /\ pending = {}
    /\ G = EmptyGraph
    /\ element_to_spaces = <<>>
    /\ todo = {}

\* Files that vary the boundary relationships; the relating space is absent,
\* a space or, with element e1, the storey
Init ==
    /\ spaces = <<S1, S2, S3>>
    /\ aggregates = <<Agg(B1, <<P1>>), Agg(P1, <<S1, S2>>)>>
    /\ rels \in RelLists(RelChoices(<<0>>, <<NoEntity, S1, S2, S3>>,
                                    <<NoEntity, E1, E2>>)
                         \o RelChoices(<<0>>, <<P1>>, <<E1>>))
    /\ Start

Spec == Init /\ [][Next]_vars

\* Files that vary the listings the boundary relationships appear in
InitListings ==
    /\ spaces = <<S1, S2, S3>>
    /\ aggregates = <<Agg(B1, <<P1>>), Agg(P1, <<S1, S2>>)>>
    /\ rels \in RelLists(RelChoices(<<0, 1, 2>>, <<S1, S2>>, <<E1, E2>>))
    /\ Start

SpecListings == InitListings /\ [][Next]_vars

AggChoices ==
    {Agg(parent, children) :
        parent \in {NoEntity, B1, P1, T1},
        children \in {<<S1, S2>>, <<E1, S3>>}}

\* Files that vary the aggregation relationships and the kind of entity a
\* boundary relationship names as its relating space
InitContain ==
    /\ spaces = <<S1, S2, S3>>
    /\ aggregates \in [1..MaxAggs -> AggChoices]
    /\ rels \in RelLists(RelChoices(<<0>>, <<S1, P1, X1>>, <<E1>>))
    /\ Start

SpecContain == InitContain /\ [][Next]_vars

IsoAlphabet == {"i", "S", "O", "7", "9", " "}

Names == UNION {[1..n -> IsoAlphabet] : n \in 0..MaxLen}

IsoSpaces ==
    {Space(<<"s", "1">>, long, None) : long \in Names}
    \cup {Space(gid, long, name) :
            gid \in {<<"s", "1">>, <<"I", "S", "O", "8", "$", "a", "b">>},
            long \in {None, <<" ">>},
            name \in {None, <<>>, <<"I", "s", "o", "5", "-">>, <<"I", "S", "O", "_", "7">>}}

\* Files that vary the names and the identity of the first space
InitIso ==
    /\ \E s \in IsoSpaces :
         /\ spaces = <<s, S2>>
         /\ rels = <<[GlobalId |-> RelId(1), level |-> 0, RelatingSpace |-> s,
                      RelatedBuildingElement |-> E1]>>
    /\ aggregates = <<Agg(P1, <<S2>>)>>
    /\ Start

SpecIso == InitIso /\ [][Next]_vars

-----------------------------------------------------------------------------
(* The build in one fixed order, as a function of the file *)

RECURSIVE ExtractFrom(_, _, _)
ExtractFrom(H, sp, k) ==
    IF k > Len(sp) THEN H
    ELSE ExtractFrom(add_node(H, safe_str(sp[k].GlobalId), SpaceNode(sp[k])), sp, k + 1)

RECURSIVE LinkFrom(_, _, _)
LinkFrom(H, ag, k) ==
    IF k > Len(ag) THEN H ELSE LinkFrom(LinkOne(H, ag[k]), ag, k + 1)

\* the relationships of listing lv, from index k on, in file order
RECURSIVE AggregateFrom(_, _, _, _)
AggregateFrom(ets, rl, lv, k) ==
    IF lv > 2 THEN ets
    ELSE IF k > Len(rl) THEN AggregateFrom(ets, rl, lv + 1, 1)
    ELSE AggregateFrom(IF rl[k].level >= lv THEN AggregateOne(ets, rl[k]) ELSE ets,
                       rl, lv, k + 1)

RECURSIVE ListOf(_)
ListOf(S) ==
    IF S = {} THEN <<>>
    ELSE LET x == CHOOSE y \in S : TRUE IN <<x>> \o ListOf(S \ {x})

RECURSIVE ResolveFrom(_, _, _)
ResolveFrom(st, ets, keys) ==
    IF keys = {} \/ ~st.ok THEN st
    ELSE LET eid == CHOOSE k \in keys : TRUE
         IN  ResolveFrom(ResolveGroup(st.G, eid, ListOf(ets[eid])), ets, keys \ {eid})

Groups(rl) == AggregateFrom(<<>>, rl, 0, 1)

Build(sp, ag, rl) ==
    LET ets == Groups(rl)
    IN  ResolveFrom([G  |-> LinkFrom(ExtractFrom(EmptyGraph, sp, 1), ag, 1),
                     ok |-> TRUE],
                    ets, DOMAIN ets)

\* the elements of a list, as a set
Elems(list) == {list[i] : i \in 1..Len(list)}

\* a graph with every via-list taken as a set
GraphView(H) ==
    [nodes |-> H.nodes,
     adj   |-> [e \in DOMAIN H.adj |->
                  IF "vias" \in DOMAIN H.adj[e]
                  THEN [type |-> H.adj[e].type, vias |-> Elems(H.adj[e].vias)]
                  ELSE H.adj[e]]]

AdjacentEdges(H) ==
    {e \in DOMAIN H.adj : "type" \in DOMAIN H.adj[e] /\ H.adj[e].type = "adjacent"}

ContainsEdges(H) ==
    {e \in DOMAIN H.adj : "type" \in DOMAIN H.adj[e] /\ H.adj[e].type = "contains"}

SpaceIds == {safe_str(spaces[i].GlobalId) : i \in 1..Len(spaces)}

Aggregated == pc \in {"resolve", "rerun", "done", "done2", "crashed"}

HasSpace(i) == rels[i].RelatingSpace # NoEntity

IsVirtual(i) == HasSpace(i) /\ rels[i].RelatedBuildingElement = NoEntity

IsReal(i) == HasSpace(i) /\ rels[i].RelatedBuildingElement # NoEntity

RelIndices == 1..Len(rels)

-----------------------------------------------------------------------------
(* Properties *)

Vias(e) == G.adj[e].vias

SidOf(i) == safe_str(rels[i].RelatingSpace.GlobalId)

IsVirtualKey(k) == Len(k) >= Len(VirtualPrefix) /\ SubSeq(k, 1, Len(VirtualPrefix)) = VirtualPrefix

RelatingSpacesExtracted ==
    \A i \in RelIndices : HasSpace(i) => InList(rels[i].RelatingSpace, spaces)

SharedKeys(a, b) ==
    {k \in DOMAIN element_to_spaces : {a, b} \subseteq element_to_spaces[k]}

C2_OneEdgeNoDuplicateVia ==
    \A e \in DOMAIN G.adj :
        /\ Cardinality(e) = 2
        /\ e \subseteq DOMAIN G.nodes
        /\ "vias" \in DOMAIN G.adj[e] => Cardinality(Elems(Vias(e))) = Len(Vias(e))

C2_Witness ==
    /\ pc = "done"
    /\ AdjacentEdges(G) # {}
    /\ \E i, j \in RelIndices :
         /\ i # j
         /\ SidOf(i) = SidOf(j)
         /\ ElementKey(rels[i]) = ElementKey(rels[j])
         /\ rels[i].level = 2

\* C3: whatever the order of the traversals, the boundary-group mapping is
\* the one of the traversal in file order, and the build fails or finishes as
\* the build in the fixed order does and, when it finishes, with the same
\* nodes, the same edges and the same via-sets.
C3_OrderIndependent ==
    /\ Aggregated => element_to_spaces = Groups(rels)
    /\ pc = "crashed" => ~Build(spaces, aggregates, rels).ok
    /\ pc = "done" =>
         /\ Build(spaces, aggregates, rels).ok
         /\ GraphView(G) = GraphView(Build(spaces, aggregates, rels).G)

C3_Witness ==
    /\ pc = "done"
    /\ \E e \in AdjacentEdges(G) : Len(Vias(e)) = 2
    /\ G # Build(spaces, aggregates, rels).G

\* C4: a second run of the resolver loop over the same boundary groups
\* changes nothing in the graph and raises no error.
C4_SecondRunChangesNothing ==
    [][pc = "rerun" => (G' = G /\ pc' # "crashed")]_vars

C4_Witness ==
    /\ pc = "done2"
    /\ \E e \in AdjacentEdges(G) : Len(Vias(e)) = 2

\* C5: both endpoints of every adjacent edge of the finished graph are
\* nodes of ifc_type IfcSpace.
C5_AdjacentJoinsSpaces ==
    pc = "done" =>
        \A e \in AdjacentEdges(G) : \A n \in e :
            /\ n \in DOMAIN G.nodes
            /\ "ifc_type" \in DOMAIN G.nodes[n]
            /\ G.nodes[n].ifc_type = "IfcSpace"

StructuralAggregates ==
    {k \in 1..Len(aggregates) :
        /\ aggregates[k].RelatingObject # NoEntity
        /\ aggregates[k].RelatingObject.type \in {"IfcBuilding", "IfcBuildingStorey"}}

ExpectedContains ==
    {{safe_str(aggregates[k].RelatingObject.GlobalId),
      safe_str(aggregates[k].RelatedObjects[c].GlobalId)} :
        <<k, c>> \in {kc \in StructuralAggregates \X (1..3) :
                        /\ kc[2] <= Len(aggregates[kc[1]].RelatedObjects)
                        /\ aggregates[kc[1]].RelatedObjects[kc[2]].type = "IfcSpace"}}

ExpectedNodes ==
    SpaceIds \cup {safe_str(aggregates[k].RelatingObject.GlobalId) : k \in StructuralAggregates}

Linked == pc \notin {"spaces", "aggregates"}

\* C6: once the aggregation relationships are linked, and in the finished
\* graph, the contains edges are exactly the pairs of a building or storey
\* and a space it aggregates, the nodes are the spaces and those buildings
\* and storeys, and no step of the resolver changes a contains edge.
C6_ContainsExactlyAggregated ==
    /\ [](Linked => /\ ContainsEdges(G) = ExpectedContains
                    /\ DOMAIN G.nodes = ExpectedNodes
                    /\ \A e \in ContainsEdges(G) : G.adj[e] = [type |-> "contains"])
    /\ [][(pc \in {"resolve", "rerun"}) =>
            (/\ ContainsEdges(G') = ContainsEdges(G)
             /\ \A e \in ContainsEdges(G) : G'.adj[e] = G.adj[e])]_vars

C6_Witness ==
    /\ pc = "done"
    /\ ContainsEdges(G) # {}
    /\ AdjacentEdges(G) # {}
    /\ \E k \in 1..Len(aggregates) :
         aggregates[k] = Agg(T1, <<S1, S2>>)

\* C7: the iso attribute of the node of every extracted space is one of
\* "0", "5", "7", "8".
C7_IsoInAllowedSet ==
    \A k \in 1..si :
        /\ safe_str(spaces[k].GlobalId) \in DOMAIN G.nodes
        /\ G.nodes[safe_str(spaces[k].GlobalId)].iso \in {<<"0">>, <<"5">>, <<"7">>, <<"8">>}

C7_Witness ==
    /\ pc = "done"
    /\ G.nodes[safe_str(spaces[1].GlobalId)].iso = <<"7">>

\* the list without its i-th entry
Remove(list, i) ==
    [j \in 1..(Len(list) - 1) |-> IF j < i THEN list[j] ELSE list[j + 1]]

\* C8: the step that visits a relationship without relating space changes
\* neither the boundary groups nor the graph and goes on with the others,
\* and the build ends as the build of the file without that relationship.
C8_NoSpaceSkipped ==
    /\ [][(\A i \in pending :
            (pc = "boundaries" /\ ~HasSpace(i) /\ pending' = pending \ {i}) =>
                (element_to_spaces' = element_to_spaces /\ G' = G /\ pc' = pc))]_vars
    /\ [](pc \in {"done", "crashed"} =>
            \A i \in RelIndices : ~HasSpace(i) =>
                /\ Build(spaces, aggregates, Remove(rels, i)).ok <=> (pc = "done")
                /\ pc = "done" =>
                     GraphView(G) = GraphView(Build(spaces, aggregates, Remove(rels, i)).G))

C8_Witness ==
    /\ pc = "done"
    /\ AdjacentEdges(G) # {}
    /\ \E i \in RelIndices : ~HasSpace(i)

RealKeys == {safe_str(rels[j].RelatedBuildingElement.GlobalId) : j \in {i \in RelIndices : IsReal(i)}}

\* C9: after the aggregation every relationship with a space and without an
\* element has its space under the key VIRTUAL- followed by its identity,
\* there are as many virtual keys as such relationships, and the other keys
\* are the identities of the real elements.
C9_VirtualKeysDistinct ==
    Aggregated =>
        /\ \A i \in RelIndices : IsVirtual(i) =>
             /\ (VirtualPrefix \o rels[i].GlobalId) \in DOMAIN element_to_spaces
             /\ SidOf(i) \in element_to_spaces[VirtualPrefix \o rels[i].GlobalId]
        /\ Cardinality({k \in DOMAIN element_to_spaces : IsVirtualKey(k)})
             = Cardinality({i \in RelIndices : IsVirtual(i)})
        /\ {k \in DOMAIN element_to_spaces : ~IsVirtualKey(k)} = RealKeys

C9_Witness ==
    /\ pc = "done"
    /\ \E i, j, k \in RelIndices :
         i # j /\ IsVirtual(i) /\ IsVirtual(j) /\ SidOf(i) = SidOf(j) /\ IsReal(k)

\* C10: every group under a virtual key has one member, no via-list holds a
\* virtual key, and two nodes joined by an adjacent edge in the finished
\* graph share a real element.
C10_VirtualNeverAdjacent ==
    /\ Aggregated => \A k \in DOMAIN element_to_spaces :
                        IsVirtualKey(k) => Cardinality(element_to_spaces[k]) = 1
    /\ \A e \in AdjacentEdges(G) : \A v \in Elems(Vias(e)) : ~IsVirtualKey(v)
    /\ pc = "done" =>
         \A e \in AdjacentEdges(G) : \E i, j \in RelIndices :
            /\ IsReal(i) /\ IsReal(j)
            /\ rels[i].RelatedBuildingElement = rels[j].RelatedBuildingElement
            /\ e = {SidOf(i), SidOf(j)}

C10_Witness ==
    /\ pc = "done"
    /\ \E i, j \in RelIndices :
         /\ IsVirtual(i) /\ IsVirtual(j)
         /\ SidOf(i) # SidOf(j)
         /\ {SidOf(i), SidOf(j)} \notin DOMAIN G.adj

====
